---- MODULE Spec2Model ----
(***************************************************************************)
(* State-machine model of the "Drone" demo scene                           *)
(* (experimental/2d_physics/scene_drone.cpp): drone_scene::Scene and       *)
(* drone_scene::SceneUi.                                                   *)
(*                                                                         *)
(* Units.  Positions are whole world units, velocities world units per     *)
(* tick, shape sizes tenths of a world unit (0.8f is 8).  Forces are       *)
(* measured in units of the body's mass, so that invMass * force is the    *)
(* force itself.  Angles are quarter turns and radiansToDegrees is         *)
(* 90 * angle, which keeps b2Rot exact.  One tick is a tenth of a second,  *)
(* so a damping of c per second scales a velocity by 10 / (10 + dt * c).   *)
(* The contact solver of the physics engine is outside the model: bodies   *)
(* are integrated as free bodies.                                          *)
(***************************************************************************)
EXTENDS Integers, Sequences, FiniteSets, TLC

VARIABLES
  config_,         \* Scene::config_ (drone_radius, move_force, rotate_torque)
  world_,          \* phys::Scene::world_: the bodies, in creation order
  variables_,      \* Scene::variables_ (drone_x, drone_y, drone_vx, drone_vy, drone_dir)
  accelerometer_,  \* Scene::accelerometer_: what the last update(dt) sampled
  timestamp_,      \* phys::Scene::timestamp_: ticks simulated so far
  pc,              \* the host's position in its frame loop
  event,           \* the last operation and its inputs
  calls            \* the calls that operation made on the scene, its sensors and the painter

vars == <<config_, world_, variables_, accelerometer_, timestamp_, pc, event, calls>>

\* ------------------------------------------------------------------ bounds
MaxDt == 2
MaxTime == 2
MaxSpawned == 2
MaxForce == 2

\* --------------------------------------------------------------- constants
\* drone_ is the second body the constructor creates, after the walls.
walls == 1
drone_ == 2

\* phys::Scene(b2Vec2(0, 0), ...): the world's gravity.
Gravity == <<0, 0>>

\* phys::Rect(-10, -10, 20, 20): the arena.
ArenaMin == -10
ArenaMax == 10

DroneLinearDamping == 10
DroneAngularDamping == 10
BalloonDamping == 1
BoxDamping == 2
CameraFov == 120
CameraFar == 30

\* mousePressEvent: the fixed sizes, in tenths of a world unit.
BalloonRadius == 8
BoxHalfWidth == 5
BoxHalfHeight == 20

\* ------------------------------------------------------------------ inputs
Keys == {"Key_Left", "Key_Right", "Key_Up", "Key_Down", "Key_Q", "Key_W"}
Buttons == {"LeftButton", "RightButton", "MiddleButton"}
DtSet == 0..MaxDt
PressPoints == {<<0, 5>>}
SpawnPoints == {<<0, 5>>}
ForceInputs == {<<1, 0>>, <<0, -2>>}
TorqueInputs == {-2}
BalloonSizes == {8}
BoxSizes == {<<5, 20>>}

\* The configuration objects a Scene may be constructed from.
ConfigInputs == {[drone_radius |-> 10, move_force |-> 1, rotate_torque |-> 2]}

\* The values config_ holds when no configuration object is given.
DefaultConfig == [drone_radius |-> 5, move_force |-> 2, rotate_torque |-> 2]

\* ----------------------------------------------------------------- helpers
Abs(n) == IF n < 0 THEN -n ELSE n

\* C++ division of floats, kept on the integer grid by rounding toward zero.
TDiv(a, b) == IF a >= 0 THEN a \div b ELSE -((-a) \div b)

Add(u, v) == <<u[1] + v[1], u[2] + v[2]>>
Scale(k, v) == <<k * v[1], k * v[2]>>

\* b2Mul(b2Rot(angle), v) for an angle in quarter turns.
Rot(v, angle) ==
  CASE angle % 4 = 0 -> v
    [] angle % 4 = 1 -> <<-v[2], v[1]>>
    [] angle % 4 = 2 -> <<-v[1], -v[2]>>
    [] angle % 4 = 3 -> <<v[2], -v[1]>>

\* math::radiansToDegrees, for an angle in quarter turns.
radiansToDegrees(angle) == 90 * angle

Call(op, args) == [op |-> op, args |-> args]
Ev(op, keys, buttons, args) == [op |-> op, keys |-> keys, buttons |-> buttons, args |-> args]

\* The scene as one value, so that a handler is a composition of calls.
Cur == [world |-> world_, variables |-> variables_, accelerometer |-> accelerometer_,
        config |-> config_, calls |-> <<>>]

Log(S, op, args) == [S EXCEPT !.calls = Append(@, Call(op, args))]

\* ------------------------------------------------------------ construction
\* b2BodyDef walls_def and its four edge fixtures.
WallsBody ==
  [kind |-> "walls", type |-> "b2_staticBody", position |-> <<0, 0>>, angle |-> 0,
   linearVelocity |-> <<0, 0>>, angularVelocity |-> 0, force |-> <<0, 0>>, torque |-> 0,
   linearDamping |-> 0, angularDamping |-> 0,
   shape |-> [type |-> "edges", size |-> <<ArenaMin, ArenaMax>>]]

\* The drone body, had its definition placed it off the origin.
DroneBodyOffOrigin(radius) ==
  [kind |-> "drone", type |-> "b2_dynamicBody", position |-> <<1, 0>>, angle |-> 0,
   linearVelocity |-> <<0, 0>>, angularVelocity |-> 0, force |-> <<0, 0>>, torque |-> 0,
   linearDamping |-> DroneLinearDamping, angularDamping |-> DroneAngularDamping,
   shape |-> [type |-> "circle", size |-> <<radius>>]]

\* b2BodyDef drone_body_def and the circle fixture of radius config_.drone_radius.
DroneBody(radius) ==
  [kind |-> "drone", type |-> "b2_dynamicBody", position |-> <<0, 0>>, angle |-> 0,
   linearVelocity |-> <<0, 0>>, angularVelocity |-> 0, force |-> <<0, 0>>, torque |-> 0,
   linearDamping |-> DroneLinearDamping, angularDamping |-> DroneAngularDamping,
   shape |-> [type |-> "circle", size |-> <<radius>>]]

\* SceneVariables as default-constructed: the constructor never calls updateVariables.
InitialVariables ==
  [drone_x |-> 0, drone_y |-> 0, drone_vx |-> 0, drone_vy |-> 0, drone_dir |-> 0]

\* --------------------------------------------------------- Scene operations
\* updateVariables, had it copied the x velocity into drone_vy.
updateVariablesSlip(S) ==
  LET d == S.world[drone_] IN
  Log([S EXCEPT !.variables =
         [drone_x |-> d.position[1], drone_y |-> d.position[2],
          drone_vx |-> d.linearVelocity[1], drone_vy |-> d.linearVelocity[1],
          drone_dir |-> d.angle]],
      "updateVariables", <<>>)

\* Scene::updateVariables
updateVariables(S) ==
  LET d == S.world[drone_] IN
  Log([S EXCEPT !.variables =
         [drone_x |-> d.position[1], drone_y |-> d.position[2],
          drone_vx |-> d.linearVelocity[1], drone_vy |-> d.linearVelocity[2],
          drone_dir |-> d.angle]],
      "updateVariables", <<>>)

\* Accelerometer::update: samples the body's velocity over the elapsed time.
AccelerometerUpdate(S, dt) ==
  Log([S EXCEPT !.accelerometer =
         [last_linear_velocity |-> S.world[drone_].linearVelocity]],
      "Accelerometer::update", <<dt>>)

\* Scene::postStep
postStep(S, dt) == updateVariables(AccelerometerUpdate(S, dt))

\* moveDrone, had it applied the force without GetWorldVector.
moveDroneWorldFrame(S, force) ==
  LET d == S.world[drone_] IN
  Log([S EXCEPT !.world[drone_].force = Add(d.force, force)], "moveDrone", force)

\* moveDrone, had it applied an impulse (ApplyLinearImpulse) instead of a force.
moveDroneImpulse(S, force) ==
  LET d == S.world[drone_] IN
  Log([S EXCEPT !.world[drone_].linearVelocity = Add(d.linearVelocity, Rot(force, d.angle))],
      "moveDrone", force)

\* Scene::moveDrone: ApplyForceToCenter(GetWorldVector(force)).
moveDrone(S, force) ==
  LET d == S.world[drone_] IN
  Log([S EXCEPT !.world[drone_].force = Add(d.force, Rot(force, d.angle))],
      "moveDrone", force)

\* rotateDrone, had it turned the body at once (SetTransform) instead of applying a torque.
rotateDroneAtOnce(S, torque) ==
  Log([S EXCEPT !.world[drone_].angle = @ + torque], "rotateDrone", <<torque>>)

\* Scene::rotateDrone: ApplyTorque(torque).
rotateDrone(S, torque) ==
  Log([S EXCEPT !.world[drone_].torque = @ + torque], "rotateDrone", <<torque>>)

\* addBalloon, had it reused the body spawned last instead of creating one.
addBalloonReuse(S, x, y, radius) ==
  LET b == [kind |-> "balloon", type |-> "b2_dynamicBody", position |-> <<x, y>>,
            angle |-> 0, linearVelocity |-> <<0, 0>>, angularVelocity |-> 0,
            force |-> <<0, 0>>, torque |-> 0,
            linearDamping |-> BalloonDamping, angularDamping |-> BalloonDamping,
            shape |-> [type |-> "circle", size |-> <<radius>>]]
  IN Log([S EXCEPT !.world = IF Len(@) > drone_ THEN [@ EXCEPT ![Len(@)] = b]
                                                 ELSE Append(@, b)],
         "addBalloon", <<x, y, radius>>)

\* Scene::addBalloon
addBalloon(S, x, y, radius) ==
  Log([S EXCEPT !.world = Append(@,
         [kind |-> "balloon", type |-> "b2_dynamicBody", position |-> <<x, y>>,
          angle |-> 0, linearVelocity |-> <<0, 0>>, angularVelocity |-> 0,
          force |-> <<0, 0>>, torque |-> 0,
          linearDamping |-> BalloonDamping, angularDamping |-> BalloonDamping,
          shape |-> [type |-> "circle", size |-> <<radius>>]])],
      "addBalloon", <<x, y, radius>>)

\* addBox, had it passed the position as (y, x).
addBoxSwapped(S, x, y, sx, sy) ==
  Log([S EXCEPT !.world = Append(@,
         [kind |-> "box", type |-> "b2_dynamicBody", position |-> <<y, x>>,
          angle |-> 0, linearVelocity |-> <<0, 0>>, angularVelocity |-> 0,
          force |-> <<0, 0>>, torque |-> 0,
          linearDamping |-> BoxDamping, angularDamping |-> BoxDamping,
          shape |-> [type |-> "polygon", size |-> <<sx, sy>>]])],
      "addBox", <<x, y, sx, sy>>)

\* Scene::addBox
addBox(S, x, y, sx, sy) ==
  Log([S EXCEPT !.world = Append(@,
         [kind |-> "box", type |-> "b2_dynamicBody", position |-> <<x, y>>,
          angle |-> 0, linearVelocity |-> <<0, 0>>, angularVelocity |-> 0,
          force |-> <<0, 0>>, torque |-> 0,
          linearDamping |-> BoxDamping, angularDamping |-> BoxDamping,
          shape |-> [type |-> "polygon", size |-> <<sx, sy>>]])],
      "addBox", <<x, y, sx, sy>>)

\* ------------------------------------------------------------ physics step
\* b2Island::Solve, damping: v *= 1 / (1 + h * damping), with h = dt / 10.
Damp(v, damping, dt) == TDiv(v * 10, 10 + dt * damping)

\* b2Island::Solve for one body, then b2World::ClearForces.
StepBody(b, dt) ==
  IF b.type = "b2_staticBody" THEN b
  ELSE IF dt = 0 THEN [b EXCEPT !.force = <<0, 0>>, !.torque = 0]
  ELSE
    LET v1 == Add(b.linearVelocity, Scale(dt, Add(Gravity, b.force)))
        v == <<Damp(v1[1], b.linearDamping, dt), Damp(v1[2], b.linearDamping, dt)>>
        w == Damp(b.angularVelocity + dt * b.torque, b.angularDamping, dt)
    IN [b EXCEPT !.linearVelocity = v, !.angularVelocity = w,
                 !.position = Add(b.position, Scale(dt, v)),
                 !.angle = b.angle + dt * w,
                 !.force = <<0, 0>>, !.torque = 0]

\* b2World::Step
WorldStep(S, dt) ==
  [S EXCEPT !.world = [i \in 1..Len(S.world) |-> StepBody(S.world[i], dt)]]

\* phys::Scene::step: one tick of the world, then the postStep hook.
SceneStep(S, dt) == postStep(WorldStep(S, dt), dt)

\* ------------------------------------------------------ SceneUi operations
\* KeyCall, had Key_Down repeated the force of Key_Up.
KeyCallDownUp(S, key) ==
  LET move_force == S.config.move_force
      rotate_torque == S.config.rotate_torque
  IN CASE key = "Key_Left" -> moveDrone(S, <<-move_force, 0>>)
       [] key = "Key_Right" -> moveDrone(S, <<move_force, 0>>)
       [] key = "Key_Up" -> moveDrone(S, <<0, move_force>>)
       [] key = "Key_Down" -> moveDrone(S, <<0, move_force>>)
       [] key = "Key_Q" -> rotateDrone(S, rotate_torque)
       [] key = "Key_W" -> rotateDrone(S, -rotate_torque)

\* KeyCall, had Key_W applied the torque of Key_Q.
KeyCallSameTorque(S, key) ==
  LET move_force == S.config.move_force
      rotate_torque == S.config.rotate_torque
  IN CASE key = "Key_Left" -> moveDrone(S, <<-move_force, 0>>)
       [] key = "Key_Right" -> moveDrone(S, <<move_force, 0>>)
       [] key = "Key_Up" -> moveDrone(S, <<0, move_force>>)
       [] key = "Key_Down" -> moveDrone(S, <<0, -move_force>>)
       [] key = "Key_Q" -> rotateDrone(S, rotate_torque)
       [] key = "Key_W" -> rotateDrone(S, rotate_torque)

\* SceneUi::step: the call each held key maps to.
KeyCall(S, key) ==
  LET move_force == S.config.move_force
      rotate_torque == S.config.rotate_torque
  IN CASE key = "Key_Left" -> moveDrone(S, <<-move_force, 0>>)
       [] key = "Key_Right" -> moveDrone(S, <<move_force, 0>>)
       [] key = "Key_Up" -> moveDrone(S, <<0, move_force>>)
       [] key = "Key_Down" -> moveDrone(S, <<0, -move_force>>)
       [] key = "Key_Q" -> rotateDrone(S, rotate_torque)
       [] key = "Key_W" -> rotateDrone(S, -rotate_torque)

IfKey(S, keys, key) == IF key \in keys THEN KeyCall(S, key) ELSE S

\* SceneUi::step: the six keyPressed tests, in the order of the code.
SceneUiStep(S, keys) ==
  IfKey(IfKey(IfKey(IfKey(IfKey(IfKey(S, keys, "Key_Left"), keys, "Key_Right"),
    keys, "Key_Up"), keys, "Key_Down"), keys, "Key_Q"), keys, "Key_W")

\* mousePressEvent, had the right button been tested in an else branch.
mousePressEventElse(S, pos, buttons) ==
  IF "LeftButton" \in buttons THEN addBalloon(S, pos[1], pos[2], BalloonRadius)
  ELSE IF "RightButton" \in buttons
       THEN addBox(S, pos[1], pos[2], BoxHalfWidth, BoxHalfHeight) ELSE S

\* SceneUi::mousePressEvent
mousePressEvent(S, pos, buttons) ==
  LET S1 == IF "LeftButton" \in buttons
            THEN addBalloon(S, pos[1], pos[2], BalloonRadius) ELSE S
  IN IF "RightButton" \in buttons
     THEN addBox(S1, pos[1], pos[2], BoxHalfWidth, BoxHalfHeight) ELSE S1

\* SceneUi::renderDrone: the transform and destination rectangle of the sprite.
renderDrone(S) ==
  LET radius == S.config.drone_radius IN
  Log(S, "drawPixmap",
      <<S.variables.drone_x, S.variables.drone_y,         \* translate
        1, -1,                                            \* scale
        radiansToDegrees(-S.variables.drone_dir),         \* rotate
        -radius, -radius, radius * 2, radius * 2>>)       \* dest_rect

\* SceneUi::renderCamera: the pie slice of the camera frustum.
renderCamera(S) ==
  LET body == S.world[drone_]
      pos == body.position
      angle == radiansToDegrees(body.angle) + 90 + CameraFov \div 2
  IN Log(S, "drawPie",
         <<pos[1] - CameraFar, pos[2] - CameraFar,        \* frustum_rect
           pos[1] + CameraFar, pos[2] + CameraFar,
           -angle * 16, CameraFov * 16>>)

\* SceneUi::render
render(S) == renderCamera(renderDrone(S))

\* ------------------------------------------------------------------ actions
\* Bounds of the exploration: accumulated force and torque, spawned bodies.
Bounded(S) ==
  /\ Len(S.world) <= 2 + MaxSpawned
  /\ Abs(S.world[drone_].force[1]) <= MaxForce
  /\ Abs(S.world[drone_].force[2]) <= MaxForce
  /\ Abs(S.world[drone_].torque) <= MaxForce

\* The session is explored for MaxTime ticks.
Alive == timestamp_ < MaxTime

Apply(S, ev) ==
  /\ Alive
  /\ Bounded(S)
  /\ world_' = S.world
  /\ variables_' = S.variables
  /\ accelerometer_' = S.accelerometer
  /\ calls' = S.calls
  /\ event' = ev
  /\ UNCHANGED config_

\* Scene::Scene(config)
Init ==
  \E given \in BOOLEAN, config \in ConfigInputs :
    /\ config_ = IF given THEN config ELSE DefaultConfig
    /\ world_ = <<WallsBody, DroneBody(config_.drone_radius)>>
    /\ variables_ = InitialVariables
    /\ accelerometer_ = [last_linear_velocity |-> <<0, 0>>]
    /\ timestamp_ = 0
    /\ pc = "input"
    /\ event = Ev(IF given THEN "Scene(config)" ELSE "Scene(nullptr)", {}, {}, <<>>)
    /\ calls = <<>>

\* The host's frame loop: phys::Scene::step, then the input step, then render.
Step ==
  \E dt \in DtSet :
    /\ pc = "step"
    /\ timestamp_ + dt <= MaxTime
    /\ timestamp_' = timestamp_ + dt
    /\ pc' = "input"
    /\ Apply(SceneStep(Cur, dt), Ev("step", {}, {}, <<dt>>))

UiStep ==
  \E keys \in SUBSET Keys :
    /\ pc = "input"
    /\ pc' = "render"
    /\ Apply(SceneUiStep(Cur, keys), Ev("SceneUi::step", keys, {}, <<>>))
    /\ UNCHANGED timestamp_

Render ==
  /\ pc = "render"
  /\ pc' = "step"
  /\ Apply(render(Cur), Ev("render", {}, {}, <<>>))
  /\ UNCHANGED timestamp_

\* A controller other than the keyboard drives the drone in the input step.
MoveDrone ==
  \E force \in ForceInputs :
    /\ pc = "input"
    /\ pc' = "render"
    /\ Apply(moveDrone(Cur, force), Ev("moveDrone", {}, {}, force))
    /\ UNCHANGED timestamp_

RotateDrone ==
  \E torque \in TorqueInputs :
    /\ pc = "input"
    /\ pc' = "render"
    /\ Apply(rotateDrone(Cur, torque), Ev("rotateDrone", {}, {}, <<torque>>))
    /\ UNCHANGED timestamp_

\* Events the host dispatches before it polls the controls.
PostStep ==
  \E dt \in DtSet :
    /\ pc = "input"
    /\ Apply(postStep(Cur, dt), Ev("postStep", {}, {}, <<dt>>))
    /\ UNCHANGED <<timestamp_, pc>>

AddBalloon ==
  \E p \in SpawnPoints, radius \in BalloonSizes :
    /\ pc = "input"
    /\ Apply(addBalloon(Cur, p[1], p[2], radius), Ev("addBalloon", {}, {}, <<p[1], p[2], radius>>))
    /\ UNCHANGED <<timestamp_, pc>>

AddBox ==
  \E p \in SpawnPoints, s \in BoxSizes :
    /\ pc = "input"
    /\ Apply(addBox(Cur, p[1], p[2], s[1], s[2]), Ev("addBox", {}, {}, <<p[1], p[2], s[1], s[2]>>))
    /\ UNCHANGED <<timestamp_, pc>>

MousePress ==
  \E pos \in PressPoints, buttons \in SUBSET Buttons :
    /\ pc = "input"
    /\ Apply(mousePressEvent(Cur, pos, buttons), Ev("mousePressEvent", {}, buttons, pos))
    /\ UNCHANGED <<timestamp_, pc>>

Next ==
  \/ Step
  \/ PostStep
  \/ MoveDrone
  \/ RotateDrone
  \/ AddBalloon
  \/ AddBox
  \/ UiStep
  \/ MousePress
  \/ Render

Spec == Init /\ [][Next]_vars
\* ------------------------------------------------------------- properties
Drone == world_[drone_]

\* The derived variables a body's state maps to.
VariablesOf(b) ==
  [drone_x |-> b.position[1], drone_y |-> b.position[2],
   drone_vx |-> b.linearVelocity[1], drone_vy |-> b.linearVelocity[2],
   drone_dir |-> b.angle]

\* Position, velocity and angle of a body.
Kinematics(b) == <<b.position, b.linearVelocity, b.angle, b.angularVelocity>>

Constructed == event.op \in {"Scene(config)", "Scene(nullptr)"}

\* C1: after postStep(dt), called by the step or alone, for every dt, the calls made
\* are the accelerometer's update with dt and then updateVariables, and the five
\* derived variables equal the drone body's current position, velocity and angle.
C1_PostStepExact ==
  event.op \in {"step", "postStep"} =>
    /\ calls = <<Call("Accelerometer::update", event.args), Call("updateVariables", <<>>)>>
    /\ accelerometer_.last_linear_velocity = Drone.linearVelocity
    /\ variables_.drone_x = Drone.position[1]
    /\ variables_.drone_y = Drone.position[2]
    /\ variables_.drone_vx = Drone.linearVelocity[1]
    /\ variables_.drone_vy = Drone.linearVelocity[2]
    /\ variables_.drone_dir = Drone.angle

\* A step of two ticks has moved and turned the drone, and the variables it left
\* differ from the ones before it in every field.
C1_Witness ==
  /\ event.op = "step"
  /\ event.args = <<2>>
  /\ variables_.drone_x # 0
  /\ variables_.drone_vx # 0
  /\ variables_.drone_vy # 0
  /\ variables_.drone_vx # variables_.drone_vy
  /\ variables_.drone_dir # 0

\* C2: in every state the derived variables equal the drone body's position, velocity
\* and angle; only a step changes the body's position, velocity or angle, and only a
\* step or postStep changes the derived variables.
C2_VariablesFollowBody ==
  /\ [](variables_ = VariablesOf(Drone))
  /\ [][/\ Kinematics(Drone') # Kinematics(Drone) => event'.op = "step"
        /\ variables_' # variables_ => event'.op \in {"step", "postStep"}]_vars

\* The drone has moved, and a control call has since put a force on it.
C2_Witness ==
  /\ event.op \in {"moveDrone", "SceneUi::step"}
  /\ Drone.force # <<0, 0>>
  /\ Drone.linearVelocity # <<0, 0>>
  /\ Drone.position # <<0, 0>>

\* C3: right after construction, with a configuration object or without, the derived
\* variables are all zero and equal the drone body's position, velocity and angle.
C3_InitialVariables ==
  Constructed =>
    /\ variables_ = [drone_x |-> 0, drone_y |-> 0, drone_vx |-> 0, drone_vy |-> 0,
                     drone_dir |-> 0]
    /\ variables_ = VariablesOf(Drone)
    /\ calls = <<>>

\* A scene constructed from a configuration object that differs from the defaults.
C3_Witness ==
  /\ event.op = "Scene(config)"
  /\ config_ # DefaultConfig
  /\ Drone.shape.size = <<config_.drone_radius>>

Dynamic(w) == {i \in 1..Len(w) : w[i].type = "b2_dynamicBody"}

\* C4: addBalloon and addBox add exactly one dynamic body, at (x, y), at rest, with the
\* shape asked for, and leave every other body as it was; a step leaves every spawned
\* body where it was spawned, at rest.
C4_SpawnOne ==
  [][/\ event'.op \in {"addBalloon", "addBox"} =>
          /\ Len(world_') = Len(world_) + 1
          /\ Cardinality(Dynamic(world_')) = Cardinality(Dynamic(world_)) + 1
          /\ SubSeq(world_', 1, Len(world_)) = world_
          /\ world_'[Len(world_')].type = "b2_dynamicBody"
          /\ world_'[Len(world_')].kind = IF event'.op = "addBalloon" THEN "balloon" ELSE "box"
          /\ world_'[Len(world_')].position = <<event'.args[1], event'.args[2]>>
          /\ world_'[Len(world_')].linearVelocity = <<0, 0>>
          /\ world_'[Len(world_')].angularVelocity = 0
          /\ world_'[Len(world_')].shape.size = SubSeq(event'.args, 3, Len(event'.args))
     /\ event'.op = "step" =>
          \A i \in (drone_ + 1)..Len(world_) :
            /\ world_'[i].position = world_[i].position
            /\ world_'[i].linearVelocity = <<0, 0>>]_vars

\* A box added at (0, 5) is at (0, 5) after a step of one tick that moved the drone.
C4_Witness ==
  /\ event.op = "step"
  /\ event.args = <<1>>
  /\ \E i \in 1..Len(world_) :
       /\ world_[i].kind = "box"
       /\ world_[i].position = <<0, 5>>
       /\ world_[i].shape.size = <<5, 20>>
  /\ Drone.position # <<0, 0>>

\* The calls a pointer press with these buttons must make.
PressCalls(pos, buttons) ==
  (IF "LeftButton" \in buttons
   THEN <<Call("addBalloon", <<pos[1], pos[2], 8>>)>> ELSE <<>>)
  \o (IF "RightButton" \in buttons
      THEN <<Call("addBox", <<pos[1], pos[2], 5, 20>>)>> ELSE <<>>)

\* C5: a pointer press at p spawns a balloon of radius 0.8 at p if the left button is
\* held, then a box of half-extents (0.5, 2.0) at p if the right button is held, and
\* nothing else.
C5_PointerPress ==
  [][event'.op = "mousePressEvent" =>
       LET exp == PressCalls(event'.args, event'.buttons)
           n == Len(world_)
       IN /\ calls' = exp
          /\ Len(world_') = n + Len(exp)
          /\ SubSeq(world_', 1, n) = world_
          /\ \A i \in 1..Len(exp) :
               /\ world_'[n + i].kind = IF exp[i].op = "addBalloon" THEN "balloon" ELSE "box"
               /\ world_'[n + i].shape.type =
                    IF exp[i].op = "addBalloon" THEN "circle" ELSE "polygon"
               /\ world_'[n + i].position = event'.args
               /\ world_'[n + i].shape.size = SubSeq(exp[i].args, 3, Len(exp[i].args))]_vars

\* A press with both buttons has spawned a balloon and then a box at the pointer.
C5_Witness ==
  /\ event.op = "mousePressEvent"
  /\ event.buttons = {"LeftButton", "RightButton"}
  /\ Len(world_) = drone_ + 2
  /\ world_[drone_ + 1].kind = "balloon"
  /\ world_[drone_ + 2].kind = "box"
  /\ timestamp_ > 0

\* The calls the held keys must make, and the force and torque they sum to.
B(held) == IF held THEN 1 ELSE 0

ExpectedCalls(keys, F, T) ==
  (IF "Key_Left" \in keys THEN <<Call("moveDrone", <<-F, 0>>)>> ELSE <<>>)
  \o (IF "Key_Right" \in keys THEN <<Call("moveDrone", <<F, 0>>)>> ELSE <<>>)
  \o (IF "Key_Up" \in keys THEN <<Call("moveDrone", <<0, F>>)>> ELSE <<>>)
  \o (IF "Key_Down" \in keys THEN <<Call("moveDrone", <<0, -F>>)>> ELSE <<>>)
  \o (IF "Key_Q" \in keys THEN <<Call("rotateDrone", <<T>>)>> ELSE <<>>)
  \o (IF "Key_W" \in keys THEN <<Call("rotateDrone", <<-T>>)>> ELSE <<>>)

SumForce(keys, F) ==
  <<F * (B("Key_Right" \in keys) - B("Key_Left" \in keys)),
    F * (B("Key_Up" \in keys) - B("Key_Down" \in keys))>>

SumTorque(keys, T) == T * (B("Key_Q" \in keys) - B("Key_W" \in keys))

\* C6: SceneUi::step makes one call for each held key, the one the key maps to, and no
\* other; the force on the drone (none was left by the step before) is the sum of the
\* held keys' forces, turned from the drone's frame into the world's, the torque is the
\* sum of their torques, and the body has not moved since the variables were taken.
C6_KeysToCalls ==
  event.op = "SceneUi::step" =>
    /\ calls = ExpectedCalls(event.keys, config_.move_force, config_.rotate_torque)
    /\ Len(calls) = Cardinality(event.keys)
    /\ Drone.force = Rot(SumForce(event.keys, config_.move_force), Drone.angle)
    /\ Drone.torque = SumTorque(event.keys, config_.rotate_torque)
    /\ variables_ = VariablesOf(Drone)

\* Three keys held at once while the drone is turned a quarter turn or three.
C6_Witness ==
  /\ event.op = "SceneUi::step"
  /\ event.keys = {"Key_Right", "Key_Down", "Key_W"}
  /\ Drone.angle % 2 = 1
  /\ Len(calls) = 3

\* What b2Island::Solve adds to the velocity along axis i in a step of dt ticks, as an
\* exact number scaled by 10 + dt * linearDamping (the state keeps it rounded).
ExactGain(b, dt, i) ==
  (b.linearVelocity[i] + dt * (Gravity[i] + b.force[i])) * 10
    - b.linearVelocity[i] * (10 + dt * b.linearDamping)

\* C7, as stated: in the step after moveDrone the drone's velocity increases along
\* every axis of the rotated force (in the state, or before rounding).
C7_VelocityIncreases ==
  [][(event'.op = "step" /\ event'.args[1] > 0) =>
       \A i \in 1..2 :
         Drone.force[i] # 0 =>
           \/ (Drone'.linearVelocity[i] - Drone.linearVelocity[i]) * Drone.force[i] > 0
           \/ ExactGain(Drone, event'.args[1], i) * Drone.force[i] > 0]_vars

\* C7, amended: moveDrone(f) adds f, turned by the drone's angle into the world frame,
\* to the force on the drone and changes nothing else; the next step of dt > 0 leaves
\* the velocity, along every axis of the force, no less than it would have been without
\* the force; and every step clears the force.
C7_LocalFrameForce ==
  [][/\ event'.op = "moveDrone" =>
          /\ Drone'.force = Add(Drone.force, Rot(event'.args, Drone.angle))
          /\ Drone'.torque = Drone.torque
          /\ Kinematics(Drone') = Kinematics(Drone)
     /\ (event'.op = "step" /\ event'.args[1] > 0) =>
          \A i \in 1..2 :
            (Drone'.linearVelocity[i]
               - StepBody([Drone EXCEPT !.force = <<0, 0>>], event'.args[1]).linearVelocity[i])
              * Drone.force[i] >= 0
     /\ event'.op = "step" => (Drone'.force = <<0, 0>> /\ Drone'.torque = 0)]_vars

\* moveDrone was called while the drone was turned, and the force it put on the drone
\* is the argument turned, not the argument.
C7_Witness ==
  /\ event.op = "moveDrone"
  /\ Drone.angle % 2 = 1
  /\ Drone.force = Rot(event.args, Drone.angle)
  /\ Drone.force # event.args

\* C8: an operation adds one body for each addBalloon or addBox call it makes, never
\* removes or replaces a body, and the world holds the walls, the drone and the
\* spawned bodies.
C8_BodiesPersist ==
  /\ [](/\ world_[walls].kind = "walls"
        /\ world_[drone_].kind = "drone"
        /\ \A i \in (drone_ + 1)..Len(world_) : world_[i].kind \in {"balloon", "box"})
  /\ [][/\ Len(world_') =
             Len(world_) + Cardinality({i \in 1..Len(calls') :
                                          calls'[i].op \in {"addBalloon", "addBox"}})
        /\ \A i \in 1..Len(world_) :
             /\ world_'[i].kind = world_[i].kind
             /\ world_'[i].shape = world_[i].shape]_vars

\* The world holds as many spawned bodies as the exploration allows, spawned before
\* and after a step.
C8_Witness ==
  /\ Len(world_) = drone_ + MaxSpawned
  /\ timestamp_ > 0
  /\ event.op \in {"addBalloon", "addBox", "mousePressEvent"}

\* C9: render draws the sprite from the derived variables and the frustum from the
\* body, and the two agree: the sprite is translated to the centre of the frustum
\* rectangle and turned as the frustum is; between a step and the render after it the
\* body's position and angle stay those of the variables.
C9_SpriteMatchesFrustum ==
  /\ event.op = "render" =>
       /\ Len(calls) = 2
       /\ calls[1].op = "drawPixmap"
       /\ calls[2].op = "drawPie"
       /\ <<calls[1].args[1], calls[1].args[2]>> = <<variables_.drone_x, variables_.drone_y>>
       /\ calls[1].args[5] = -90 * variables_.drone_dir
       /\ <<calls[2].args[1] + 30, calls[2].args[2] + 30>> = Drone.position
       /\ <<calls[2].args[3] - 30, calls[2].args[4] - 30>> = Drone.position
       /\ calls[2].args[5] = -(90 * Drone.angle + 90 + 60) * 16
       /\ calls[2].args[6] = 120 * 16
       /\ calls[1].args[1] = calls[2].args[1] + 30
       /\ calls[1].args[2] = calls[2].args[2] + 30
       /\ calls[2].args[5] = (calls[1].args[5] - 90 - 60) * 16
  /\ pc \in {"input", "render"} =>
       /\ Drone.position = <<variables_.drone_x, variables_.drone_y>>
       /\ Drone.angle = variables_.drone_dir

\* A frame rendered after a step that moved and turned the drone and an input step
\* that put a force and a torque on it.
C9_Witness ==
  /\ event.op = "render"
  /\ Drone.position # <<0, 0>>
  /\ Drone.angle % 2 = 1
  /\ Drone.force # <<0, 0>>
  /\ Drone.torque # 0

\* The held keys without the opposing pairs held together.
Unopposed(keys) ==
  {k \in keys :
     /\ k \in {"Key_Left", "Key_Right"} => ~({"Key_Left", "Key_Right"} \subseteq keys)
     /\ k \in {"Key_Up", "Key_Down"} => ~({"Key_Up", "Key_Down"} \subseteq keys)
     /\ k \in {"Key_Q", "Key_W"} => ~({"Key_Q", "Key_W"} \subseteq keys)}

\* The total force and torque of the calls of a log.
RECURSIVE SumArgs(_, _)
SumArgs(log, i) ==
  IF i > Len(log) THEN <<0, 0, 0>>
  ELSE LET rest == SumArgs(log, i + 1)
           a == log[i].args
       IN IF log[i].op = "moveDrone" THEN <<rest[1] + a[1], rest[2] + a[2], rest[3]>>
          ELSE <<rest[1], rest[2], rest[3] + a[1]>>

\* C10: when both keys of an opposing pair are held, the calls of SceneUi::step sum to
\* the force and torque of the other held keys alone, and so do the force and torque
\* it leaves on the drone: the next step moves the drone as if neither key of the pair
\* had been held.
C10_OpposingCancel ==
  (event.op = "SceneUi::step" /\ Unopposed(event.keys) # event.keys) =>
    LET force == SumForce(Unopposed(event.keys), config_.move_force)
        torque == SumTorque(Unopposed(event.keys), config_.rotate_torque)
    IN /\ SumArgs(calls, 1) = <<force[1], force[2], torque>>
       /\ Drone.force = Rot(force, Drone.angle)
       /\ Drone.torque = torque
       /\ \A dt \in DtSet :
            StepBody(Drone, dt) =
              StepBody([Drone EXCEPT !.force = Rot(force, Drone.angle), !.torque = torque], dt)

\* Two opposing pairs and one more key held while the drone is turned.
C10_Witness ==
  /\ event.op = "SceneUi::step"
  /\ event.keys = {"Key_Left", "Key_Right", "Key_Q", "Key_W", "Key_Up"}
  /\ Drone.angle % 2 = 1
  /\ Drone.force # <<0, 0>>
  /\ Drone.torque = 0
====
